---------------------------- MODULE Spec2Model ----------------------------
(***************************************************************************)
(* The client-side voice streaming session of VoxaMind-AI:                 *)
(*   MicrophoneCapture    (silence-aware capture, src/unnamed/part_000)    *)
(*   AudioPlayer          (playback queue, src/client/web/audio-player.ts) *)
(*   VoiceAgentWebSocket  (protocol session, src/unnamed/part_000)         *)
(* Every action is one callback, timer, socket event or public call of     *)
(* the code, run to completion (the code is single-threaded and            *)
(* cooperative: a handler is atomic up to its next await).                 *)
(***************************************************************************)
EXTENDS Integers, Sequences, FiniteSets, TLC

VARIABLES
    \* ---- VoiceAgentWebSocket fields
    state,              \* "idle" | "listening" | "processing" | "speaking"
    ws,                 \* index into sockets of this.ws, 0 for null
    microphone,         \* index into mics of this.microphone, 0 for null
    sessionId,          \* 0 for null, else the recorded identifier
    reconnectAttempts,
    pingInterval,       \* 0 for null, else the socket whose onopen created it
    \* ---- the platform objects the session created
    sockets,            \* readyState of every WebSocket built by connect();
                        \* "aborted" is CLOSING on a socket that never opened
    intervals,          \* setInterval timers still active (named by socket)
    reconnectTimers,    \* number of pending reconnect-delay timeouts
    resuming,           \* startListening() calls awaiting audioPlayer.resume()
    mics,               \* every MicrophoneCapture built by startListening()
    \* ---- AudioPlayer fields and its source nodes
    queue,              \* decoded segments not yet started
    isPlaying,
    currentSource,      \* 0 for null, else the segment of the current source
    playing,            \* sources started and still audible
    halted,             \* sources halted by stop(), onended not yet delivered
    decoding,           \* queueBlob() calls awaiting the platform decoder
    \* ---- observation (history) variables
    ev,                 \* the state-machine event of the last step
    prevState,          \* the ConversationState before the last step
    out,                \* the frame the last step wrote to the socket
    merged,             \* the segment the last step handed to onSilence
    micHist,            \* per mic: samples captured since its last flush, and
                        \* timer flushes since its last voiced chunk
    nChunks,            \* chunks delivered so far
    nSegs,              \* enqueue calls so far (a segment is named by its call)
    started,            \* segments in the order they were started
    runStarts,          \* "playback started" signals of the current play-run
    nConnects,          \* connect() calls made by the user
    disconnected,       \* disconnect() was called, no connect() by the user since
    closesSinceOpen,    \* close events since the last open event
    scheduledSinceOpen, \* reconnect delays started since the last open event
    notified,           \* the state the last step passed to onStateChange
    lastNotified,       \* the state of the onStateChange call before that step
    ui,                 \* the other UI callback the last step invoked
    malformed,          \* the last step handled a malformed text message
    frame,              \* the PCM16 samples of the binary frame the last step
                        \* sent, <<>> if it sent none
    pcm                 \* the last queueAudio call: its PCM16 data (<<>> where
                        \* the payload is not modelled) and the decoded samples

connVars    == <<ws, sessionId, reconnectAttempts, pingInterval, sockets,
                 intervals, reconnectTimers, nConnects, disconnected,
                 closesSinceOpen, scheduledSinceOpen>>
micVars     == <<microphone, resuming, mics, micHist, nChunks>>
playerVars  == <<queue, isPlaying, currentSource, playing, halted, decoding,
                 nSegs, started, runStarts>>
vars == <<state, ws, microphone, sessionId, reconnectAttempts, pingInterval,
          sockets, intervals, reconnectTimers, resuming, mics,
          queue, isPlaying, currentSource, playing, halted, decoding,
          ev, prevState, out, merged, micHist, nChunks, nSegs, started,
          runStarts, nConnects, disconnected, closesSinceOpen,
          scheduledSinceOpen, notified, lastNotified, ui, malformed,
          frame, pcm>>

---------------------------------------------------------------------------
(* Bounds of the model.                                                    *)
MaxSegs    == 3     \* enqueue calls on the Playback Queue
MaxChunks  == 3     \* chunks the audio graph delivers
MaxListens == 2     \* startListening() calls
MaxSockets == 7     \* sockets built by connect()
MaxConnects == 2    \* connect() calls made by the user
(* In the specification of the whole session: the connect() and           *)
(* startListening() calls the user makes, and the chunks captured plus the *)
(* audio segments received.                                                *)
SessionCalls == 2
SessionAudio == 3

(* Program constants (src/client/config.ts).  Samples are in thousandths   *)
(* of full scale, so the silence threshold 0.01 is 10.                     *)
SILENCE_THRESHOLD      == 10
MAX_RECONNECT_ATTEMPTS == 5

(* The chunks the audio graph may deliver: two below and two above the     *)
(* RMS threshold.                                                          *)
Chunks == { <<0, 0>>, <<0, 12>>, <<8, 12>>, <<20, 20>> }
SessionChunks == { <<0, 0>>, <<20, 20>> }
SessionIds == {1, 2}

---------------------------------------------------------------------------
(* setState with its comparison inverted (=== for !==): the state is never *)
(* changed.                                                                *)
setStateInverted(cur, s) == IF cur = s THEN s ELSE cur

(* VoiceAgentWebSocket.setState: the state after setState(s) in state cur  *)
setState(cur, s) == IF cur # s THEN s ELSE cur

(* setState with the callback moved out of its test: it fires on every     *)
(* call.                                                                   *)
onStateChangeAlways(cur, s) == s

(* VoiceAgentWebSocket.setState: the argument of the onStateChange call    *)
(* setState(s) makes in state cur, "none" when it makes no call            *)
onStateChange(cur, s) == IF cur # s THEN s ELSE "none"

(* The callbacks of a step as the UI sees them: n is the state passed to   *)
(* onStateChange, u the other callback invoked, m whether the step handled *)
(* a malformed text message ("none" / FALSE when there was none).          *)
Observe(n, u, m) ==
    /\ notified' = n
    /\ lastNotified' = (IF notified # "none" THEN notified ELSE lastNotified)
    /\ ui' = u
    /\ malformed' = m

---------------------------------------------------------------------------
(* The PCM conversions.  Float samples are in thousandths of full scale    *)
(* (1.0 is FullScale); a store into an Int16Array drops the fraction.      *)
FullScale == 1000

(* x / FullScale with the fraction dropped (towards zero)                  *)
truncate(x) == IF x < 0 THEN -((-x) \div FullScale) ELSE x \div FullScale

(* float32ToInt16 with 0x7fff as the scale of both signs                   *)
float32ToInt16Symmetric(buffer) ==
    [i \in 1..Len(buffer) |->
        LET s == IF buffer[i] < -FullScale THEN -FullScale
                 ELSE IF buffer[i] > FullScale THEN FullScale ELSE buffer[i]
        IN  truncate(s * 32767)]

(* MicrophoneCapture.float32ToInt16: s = max(-1, min(1, x)), then          *)
(* s * 0x8000 for a negative s and s * 0x7fff otherwise                    *)
float32ToInt16(buffer) ==
    [i \in 1..Len(buffer) |->
        LET s == IF buffer[i] < -FullScale THEN -FullScale
                 ELSE IF buffer[i] > FullScale THEN FullScale ELSE buffer[i]
        IN  IF s < 0 THEN truncate(s * 32768) ELSE truncate(s * 32767)]

(* AudioPlayer.queueAudio's decoding loop: int16[i] / 32768.0, to the      *)
(* thousandth                                                              *)
int16ToFloat32(int16) ==
    [i \in 1..Len(int16) |->
        IF int16[i] < 0 THEN -((-int16[i] * FullScale) \div 32768)
        ELSE (int16[i] * FullScale) \div 32768]

---------------------------------------------------------------------------
(* AudioPlayer                                                             *)

(* The player as a record, with sig the signal the last call fired.        *)
Player ==
    [queue |-> queue, isPlaying |-> isPlaying, currentSource |-> currentSource,
     playing |-> playing, halted |-> halted, started |-> started,
     runStarts |-> runStarts, sig |-> "none"]

(* playNext without its onPlaybackStart call                               *)
playNextNoStartSignal(p) ==
    IF Len(p.queue) = 0
    THEN [p EXCEPT !.isPlaying = FALSE, !.sig = "end", !.runStarts = 0]
    ELSE [p EXCEPT !.isPlaying = TRUE,
                   !.queue = Tail(p.queue),
                   !.currentSource = Head(p.queue),
                   !.playing = @ \cup {Head(p.queue)},
                   !.started = Append(@, Head(p.queue)),
                   !.runStarts = IF p.isPlaying THEN @ ELSE 0,
                   !.sig = "none"]

(* AudioPlayer.playNext                                                    *)
playNext(p) ==
    IF Len(p.queue) = 0
    THEN [p EXCEPT !.isPlaying = FALSE, !.sig = "end", !.runStarts = 0]
    ELSE LET buffer == Head(p.queue)
             rest   == Tail(p.queue)
             fire   == Len(rest) = 0
         IN  [p EXCEPT !.isPlaying = TRUE,
                       !.queue = rest,
                       !.currentSource = buffer,
                       !.playing = @ \cup {buffer},
                       !.started = Append(@, buffer),
                       !.runStarts = (IF p.isPlaying THEN @ ELSE 0)
                                     + (IF fire THEN 1 ELSE 0),
                       !.sig = IF fire THEN "start" ELSE "none"]

(* AudioPlayer.queueAudio, and queueBlob once its decode has resolved      *)
queueAudio(p, seg) ==
    LET q == [p EXCEPT !.queue = Append(@, seg)]
    IN  IF ~q.isPlaying THEN playNext(q) ELSE q

(* AudioPlayer.stop: source.stop() halts the node; its ended event is      *)
(* still dispatched later, and the handler is still attached.              *)
playerStop(p) ==
    [p EXCEPT !.queue = <<>>,
              !.halted = IF p.currentSource # 0 /\ p.currentSource \in p.playing
                         THEN @ \cup {p.currentSource} ELSE @,
              !.playing = @ \ {p.currentSource},
              !.currentSource = 0,
              !.isPlaying = FALSE,
              !.runStarts = 0]

(* source.onended of the node that played segment s                        *)
onended(p, s) ==
    playNext([p EXCEPT !.currentSource = 0,
                       !.playing = @ \ {s},
                       !.halted = @ \ {s}])

(* The constructor's wiring: onPlaybackStart -> setState("speaking"),      *)
(* onPlaybackEnd -> setState("idle").                                      *)
stateAfterSignal(cur, sig) ==
    CASE sig = "start" -> setState(cur, "speaking")
      [] sig = "end"   -> setState(cur, "idle")
      [] OTHER         -> cur

notifiedAfterSignal(cur, sig) ==
    CASE sig = "start" -> onStateChange(cur, "speaking")
      [] sig = "end"   -> onStateChange(cur, "idle")
      [] OTHER         -> "none"

eventOfSignal(sig) ==
    CASE sig = "start" -> "playbackStarted"
      [] sig = "end"   -> "playbackEnded"
      [] OTHER         -> "none"

(* Write the player record p back, with the callbacks it fired; e is the   *)
(* event of the step when no signal fired.                                 *)
PlayerStep(p, e) ==
    /\ queue' = p.queue
    /\ isPlaying' = p.isPlaying
    /\ currentSource' = p.currentSource
    /\ playing' = p.playing
    /\ halted' = p.halted
    /\ started' = p.started
    /\ runStarts' = p.runStarts
    /\ state' = stateAfterSignal(state, p.sig)
    /\ prevState' = state
    /\ ev' = IF p.sig = "none" THEN e ELSE eventOfSignal(p.sig)
    /\ Observe(notifiedAfterSignal(state, p.sig), "none", FALSE)

(* queueAudio(data) called on the player with the PCM16 samples data       *)
QueueAudioData(data) ==
    /\ nSegs' = nSegs + 1
    /\ PlayerStep(queueAudio(Player, nSegs + 1), "none")
    /\ out' = "none"
    /\ merged' = <<>>
    /\ frame' = <<>>
    /\ pcm' = [data |-> data, float32 |-> int16ToFloat32(data)]
    /\ UNCHANGED <<decoding>>
    /\ UNCHANGED connVars
    /\ UNCHANGED micVars

(* queueAudio(data) with the payload left out                              *)
QueueAudio == QueueAudioData(<<>>)

(* queueBlob(blob) called: up to its first await                           *)
QueueBlob ==
    /\ nSegs' = nSegs + 1
    /\ decoding' = decoding \cup {nSegs + 1}
    /\ ev' = "none" /\ prevState' = state /\ out' = "none"
    /\ Observe("none", "none", FALSE)
    /\ merged' = <<>>
    /\ frame' = <<>>
    /\ UNCHANGED pcm
    /\ UNCHANGED <<state, queue, isPlaying, currentSource, playing, halted,
                   started, runStarts>>
    /\ UNCHANGED connVars
    /\ UNCHANGED micVars

(* queueBlob: decodeAudioData resolved for segment s                       *)
DecodeDone(s) ==
    /\ s \in decoding
    /\ decoding' = decoding \ {s}
    /\ PlayerStep(queueAudio(Player, s), "none")
    /\ out' = "none"
    /\ merged' = <<>>
    /\ frame' = <<>>
    /\ UNCHANGED pcm
    /\ UNCHANGED <<nSegs>>
    /\ UNCHANGED connVars
    /\ UNCHANGED micVars

(* the ended event of the source of segment s (played out, or halted)      *)
SourceEnded(s) ==
    /\ s \in playing \cup halted
    /\ PlayerStep(onended(Player, s), "none")
    /\ out' = "none"
    /\ merged' = <<>>
    /\ frame' = <<>>
    /\ UNCHANGED pcm
    /\ UNCHANGED <<decoding, nSegs>>
    /\ UNCHANGED connVars
    /\ UNCHANGED micVars

(* stop() called on the player                                             *)
PlayerStop ==
    /\ PlayerStep(playerStop(Player), "playerStop")
    /\ out' = "none"
    /\ merged' = <<>>
    /\ frame' = <<>>
    /\ UNCHANGED pcm
    /\ UNCHANGED <<decoding, nSegs>>
    /\ UNCHANGED connVars
    /\ UNCHANGED micVars

---------------------------------------------------------------------------
(* MicrophoneCapture                                                       *)

(* A MicrophoneCapture as constructed, with start() awaiting getUserMedia. *)
(* silenceTimer is "null", "pending" (armed, not yet elapsed) or "fired"   *)
(* (elapsed: the field still holds the timer's id).                        *)
NewMic ==
    [acquiring |-> TRUE, isRecording |-> FALSE, silenceTimer |-> "null",
     audioBuffer |-> <<>>, mediaStream |-> FALSE, audioContext |-> FALSE]

NewHist == [captured |-> <<>>, timerFlushes |-> 0, voicedSinceArmed |-> FALSE]

(* calculateRMS: the sum of the squared samples                            *)
RECURSIVE sumSquares(_)
sumSquares(buffer) ==
    IF buffer = <<>> THEN 0
    ELSE Head(buffer) * Head(buffer) + sumSquares(Tail(buffer))

(* rms < CONFIG.AUDIO.SILENCE_THRESHOLD, with rms = sqrt(sum / length)     *)
belowThreshold(chunk) ==
    sumSquares(chunk) < SILENCE_THRESHOLD * SILENCE_THRESHOLD * Len(chunk)

(* flushBuffer's merge loop: the chunks copied one after the other         *)
RECURSIVE mergeChunks(_)
mergeChunks(buf) ==
    IF buf = <<>> THEN <<>> ELSE Head(buf) \o mergeChunks(Tail(buf))

(* flushBuffer without its reset of audioBuffer                            *)
flushBufferNoReset(m) ==
    IF Len(m.audioBuffer) = 0
    THEN [mic |-> m, called |-> FALSE, seg |-> <<>>]
    ELSE [mic |-> m, called |-> TRUE, seg |-> mergeChunks(m.audioBuffer)]

(* flushBuffer: the mic afterwards, whether onSilence was called, and the  *)
(* segment it was called with                                              *)
flushBuffer(m) ==
    IF Len(m.audioBuffer) = 0
    THEN [mic |-> m, called |-> FALSE, seg |-> <<>>]
    ELSE [mic |-> [m EXCEPT !.audioBuffer = <<>>], called |-> TRUE,
          seg |-> mergeChunks(m.audioBuffer)]

(* onaudioprocess without the clearTimeout of its above-threshold branch   *)
onaudioprocessNoCancel(m, chunk) ==
    [m EXCEPT !.audioBuffer = Append(@, chunk),
              !.silenceTimer =
                  IF belowThreshold(chunk)
                  THEN (IF @ = "null" THEN "pending" ELSE @)
                  ELSE @]

(* onaudioprocess, after the isRecording test                              *)
onaudioprocess(m, chunk) ==
    [m EXCEPT !.audioBuffer = Append(@, chunk),
              !.silenceTimer =
                  IF belowThreshold(chunk)
                  THEN (IF @ = "null" THEN "pending" ELSE @)
                  ELSE "null"]

(* MicrophoneCapture.stop                                                  *)
micStop(m) ==
    LET f == flushBuffer([m EXCEPT !.isRecording = FALSE,
                                   !.silenceTimer = "null"])
    IN  [f EXCEPT !.mic = [f.mic EXCEPT !.mediaStream = FALSE,
                                        !.audioContext = FALSE]]

(* this.ws?.readyState === WebSocket.OPEN                                  *)
wsOpen == ws # 0 /\ sockets[ws] = "open"

(* startListening(): up to await this.audioPlayer.resume()                 *)
StartListening ==
    /\ resuming' = resuming + 1
    /\ ev' = "none" /\ prevState' = state /\ out' = "none"
    /\ Observe("none", "none", FALSE)
    /\ merged' = <<>>
    /\ frame' = <<>>
    /\ UNCHANGED pcm
    /\ UNCHANGED <<state, microphone, mics, micHist, nChunks>>
    /\ UNCHANGED connVars
    /\ UNCHANGED playerVars

(* startListening() resumed: audioPlayer.stop(), new MicrophoneCapture,    *)
(* microphone.start() up to await getUserMedia                             *)
ResumeDone ==
    /\ resuming > 0
    /\ resuming' = resuming - 1
    /\ PlayerStep(playerStop(Player), "none")
    /\ mics' = Append(mics, NewMic)
    /\ micHist' = Append(micHist, NewHist)
    /\ microphone' = Len(mics) + 1
    /\ out' = "none"
    /\ merged' = <<>>
    /\ frame' = <<>>
    /\ UNCHANGED pcm
    /\ UNCHANGED <<nChunks, decoding, nSegs>>
    /\ UNCHANGED connVars

(* getUserMedia settled for mic m.  "ok": the graph is built, isRecording  *)
(* is set, start() resolves and startListening() goes on to               *)
(* setState("listening") and sendJSON(session_start).  "denied":           *)
(* getUserMedia rejected.  "contextFail" / "graphFail": new AudioContext   *)
(* or a node constructor threw after the stream was stored.  On a failure  *)
(* the catch calls onError and rethrows, so startListening() rejects.      *)
GetUserMediaDone(m, outcome) ==
    /\ m \in 1..Len(mics)
    /\ mics[m].acquiring
    /\ mics' = [mics EXCEPT ![m] =
          CASE outcome = "ok" ->
                 [@ EXCEPT !.acquiring = FALSE, !.mediaStream = TRUE,
                           !.audioContext = TRUE, !.isRecording = TRUE]
            [] outcome = "denied" ->
                 [@ EXCEPT !.acquiring = FALSE]
            [] outcome = "contextFail" ->
                 [@ EXCEPT !.acquiring = FALSE, !.mediaStream = TRUE]
            [] outcome = "graphFail" ->
                 [@ EXCEPT !.acquiring = FALSE, !.mediaStream = TRUE,
                           !.audioContext = TRUE]]
    /\ state' = IF outcome = "ok" THEN setState(state, "listening") ELSE state
    /\ prevState' = state
    /\ ev' = IF outcome = "ok" THEN "startListening" ELSE "captureError"
    /\ Observe(IF outcome = "ok" THEN onStateChange(state, "listening")
                ELSE "none",
               IF outcome = "ok" THEN "none" ELSE "onError", FALSE)
    /\ out' = IF outcome = "ok" /\ wsOpen THEN "session_start" ELSE "none"
    /\ merged' = <<>>
    /\ frame' = <<>>
    /\ UNCHANGED pcm
    /\ UNCHANGED <<microphone, resuming, micHist, nChunks>>
    /\ UNCHANGED connVars
    /\ UNCHANGED playerVars

(* processorNode.onaudioprocess of mic m with the chunk it captured        *)
OnAudioProcess(m, chunk) ==
    /\ m \in 1..Len(mics)
    /\ mics[m].isRecording
    /\ nChunks' = nChunks + 1
    /\ mics' = [mics EXCEPT ![m] = onaudioprocess(@, chunk)]
    /\ micHist' = [micHist EXCEPT ![m] =
          [captured |-> @.captured \o chunk,
           timerFlushes |-> IF belowThreshold(chunk) THEN @.timerFlushes ELSE 0,
           voicedSinceArmed |->
               IF ~belowThreshold(chunk) THEN TRUE
               ELSE IF mics[m].silenceTimer = "null" THEN FALSE
               ELSE @.voicedSinceArmed]]
    /\ out' = IF wsOpen THEN "binary" ELSE "none"
    /\ merged' = <<>>
    /\ frame' = IF wsOpen THEN float32ToInt16(chunk) ELSE <<>>
    /\ UNCHANGED pcm
    /\ ev' = "none" /\ prevState' = state
    /\ Observe("none", "none", FALSE)
    /\ UNCHANGED <<state, microphone, resuming>>
    /\ UNCHANGED connVars
    /\ UNCHANGED playerVars

(* The silence timeout of mic m elapses: flushBuffer(), and through        *)
(* onSilence sendJSON(audio_end) and setState("processing").               *)
SilenceTimerFire(m) ==
    /\ m \in 1..Len(mics)
    /\ mics[m].silenceTimer = "pending"
    /\ LET f == flushBuffer(mics[m])
       IN  /\ mics' = [mics EXCEPT ![m] = [f.mic EXCEPT !.silenceTimer = "fired"]]
           /\ merged' = f.seg
           /\ frame' = <<>>
           /\ UNCHANGED pcm
           /\ micHist' = [micHist EXCEPT ![m] =
                 IF f.called
                 THEN [@ EXCEPT !.captured = <<>>,
                                !.timerFlushes = @ + 1]
                 ELSE @]
           /\ state' = IF f.called THEN setState(state, "processing") ELSE state
           /\ out' = IF f.called /\ wsOpen THEN "audio_end" ELSE "none"
           /\ ev' = IF f.called THEN "flush" ELSE "none"
           /\ Observe(IF f.called THEN onStateChange(state, "processing")
                       ELSE "none", "none", FALSE)
    /\ prevState' = state
    /\ UNCHANGED <<microphone, resuming, nChunks>>
    /\ UNCHANGED connVars
    /\ UNCHANGED playerVars

(* The body of stopListening(): microphone?.stop() with its final flush,   *)
(* microphone = null, and idle if the state is then "listening".           *)
stopListening ==
    LET f == IF microphone # 0 THEN micStop(mics[microphone])
             ELSE [mic |-> NewMic, called |-> FALSE, seg |-> <<>>]
        s1 == IF f.called THEN setState(state, "processing") ELSE state
    IN  /\ mics' = IF microphone # 0 THEN [mics EXCEPT ![microphone] = f.mic]
                   ELSE mics
        /\ micHist' = IF f.called
                      THEN [micHist EXCEPT ![microphone].captured = <<>>]
                      ELSE micHist
        /\ merged' = f.seg
        /\ frame' = <<>>
        /\ UNCHANGED pcm
        /\ microphone' = 0
        /\ state' = IF s1 = "listening" THEN setState(s1, "idle") ELSE s1
        /\ out' = IF f.called /\ wsOpen THEN "audio_end" ELSE "none"
        /\ Observe(IF f.called THEN onStateChange(state, "processing")
                    ELSE IF s1 = "listening" THEN onStateChange(s1, "idle")
                    ELSE "none", "none", FALSE)

(* stopListening() called                                                  *)
StopListening ==
    /\ stopListening
    /\ ev' = "stopListening" /\ prevState' = state
    /\ UNCHANGED <<resuming, nChunks>>
    /\ UNCHANGED connVars
    /\ UNCHANGED playerVars

---------------------------------------------------------------------------
(* VoiceAgentWebSocket: the connection                                     *)

(* connect(): a new WebSocket with the four handlers attached              *)
connect ==
    /\ sockets' = Append(sockets, "connecting")
    /\ ws' = Len(sockets) + 1

(* stopPing(): the interval pingInterval refers to, if any, is cleared     *)
stopPing ==
    /\ intervals' = IF pingInterval # 0 THEN intervals \ {pingInterval}
                    ELSE intervals
    /\ pingInterval' = 0

(* attemptReconnect with > for >= in its budget test                       *)
attemptReconnectOffByOne == ~(reconnectAttempts > MAX_RECONNECT_ATTEMPTS)

(* attemptReconnect() up to its await: whether a delay is started          *)
attemptReconnect == ~(reconnectAttempts >= MAX_RECONNECT_ATTEMPTS)

(* connect() called by the user                                            *)
Connect ==
    /\ connect
    /\ nConnects' = nConnects + 1
    /\ disconnected' = FALSE
    /\ ev' = "connect" /\ prevState' = state /\ out' = "none"
    /\ Observe("none", "none", FALSE)
    /\ merged' = <<>>
    /\ frame' = <<>>
    /\ UNCHANGED pcm
    /\ UNCHANGED <<state, sessionId, reconnectAttempts, pingInterval, intervals,
                   reconnectTimers, closesSinceOpen, scheduledSinceOpen>>
    /\ UNCHANGED micVars
    /\ UNCHANGED playerVars

(* ws.onopen of socket s                                                   *)
SocketOpen(s) ==
    /\ s \in 1..Len(sockets)
    /\ sockets[s] = "connecting"
    /\ sockets' = [sockets EXCEPT ![s] = "open"]
    /\ reconnectAttempts' = 0
    /\ intervals' = intervals \cup {s}
    /\ pingInterval' = s
    /\ closesSinceOpen' = 0
    /\ scheduledSinceOpen' = 0
    /\ ev' = "open" /\ prevState' = state /\ out' = "none"
    /\ Observe("none", "onConnected", FALSE)
    /\ merged' = <<>>
    /\ frame' = <<>>
    /\ UNCHANGED pcm
    /\ UNCHANGED <<state, ws, sessionId, reconnectTimers, nConnects, disconnected>>
    /\ UNCHANGED micVars
    /\ UNCHANGED playerVars

(* ws.onclose of socket s: stopPing(), onDisconnected, attemptReconnect()  *)
(* up to its await on the reconnect delay                                  *)
SocketClose(s) ==
    /\ s \in 1..Len(sockets)
    /\ sockets[s] \in {"connecting", "open", "closing", "aborted"}
    /\ sockets' = [sockets EXCEPT ![s] = "closed"]
    /\ stopPing
    /\ reconnectAttempts' = IF attemptReconnect THEN reconnectAttempts + 1
                            ELSE reconnectAttempts
    /\ reconnectTimers' = IF attemptReconnect THEN reconnectTimers + 1
                          ELSE reconnectTimers
    /\ closesSinceOpen' = closesSinceOpen + 1
    /\ scheduledSinceOpen' = scheduledSinceOpen + (reconnectTimers' - reconnectTimers)
    /\ ev' = "close" /\ prevState' = state /\ out' = "none"
    /\ Observe("none", "onDisconnected", FALSE)
    /\ merged' = <<>>
    /\ frame' = <<>>
    /\ UNCHANGED pcm
    /\ UNCHANGED <<state, ws, sessionId, nConnects, disconnected>>
    /\ UNCHANGED micVars
    /\ UNCHANGED playerVars

(* A reconnect delay elapses: attemptReconnect() goes on to connect()      *)
ReconnectTimerFire ==
    /\ reconnectTimers > 0
    /\ reconnectTimers' = reconnectTimers - 1
    /\ connect
    /\ ev' = "reconnect" /\ prevState' = state /\ out' = "none"
    /\ Observe("none", "none", FALSE)
    /\ merged' = <<>>
    /\ frame' = <<>>
    /\ UNCHANGED pcm
    /\ UNCHANGED <<state, sessionId, reconnectAttempts, pingInterval, intervals,
                   nConnects, disconnected, closesSinceOpen, scheduledSinceOpen>>
    /\ UNCHANGED micVars
    /\ UNCHANGED playerVars

(* disconnect(): stopPing(), stopListening(), ws?.close(), ws = null       *)
Disconnect ==
    /\ stopPing
    /\ stopListening
    /\ sockets' = CASE ws # 0 /\ sockets[ws] = "open" ->
                         [sockets EXCEPT ![ws] = "closing"]
                    [] ws # 0 /\ sockets[ws] = "connecting" ->
                         [sockets EXCEPT ![ws] = "aborted"]
                    [] OTHER -> sockets
    /\ ws' = 0
    /\ disconnected' = TRUE
    /\ ev' = "disconnect" /\ prevState' = state
    /\ UNCHANGED <<sessionId, reconnectAttempts, reconnectTimers, nConnects,
                   closesSinceOpen, scheduledSinceOpen, resuming, nChunks>>
    /\ UNCHANGED playerVars

(* The heartbeat interval started by socket i's onopen ticks               *)
PingTick(i) ==
    /\ i \in intervals
    /\ out' = IF wsOpen THEN "ping" ELSE "none"
    /\ merged' = <<>>
    /\ frame' = <<>>
    /\ UNCHANGED pcm
    /\ ev' = "ping" /\ prevState' = state
    /\ Observe("none", "none", FALSE)
    /\ UNCHANGED state
    /\ UNCHANGED connVars
    /\ UNCHANGED micVars
    /\ UNCHANGED playerVars

(* Inbound messages: <<type, data present, argument, fields present>>.    *)
(* The argument is the session_id of a session_start and is_final (1 / 0)  *)
(* of a transcript.  "unparsable" is a text frame JSON.parse rejects; with *)
(* data present but its fields absent (data is {}), every field read       *)
(* yields undefined: the argument is 0.                                    *)
Messages ==
    {<<"session_start", TRUE, i, TRUE>> : i \in SessionIds}
    \cup {<<"transcript", TRUE, f, TRUE>> : f \in {0, 1}}
    \cup {<<t, TRUE, 0, TRUE>> :
            t \in {"binary", "response_text", "response_audio",
                   "response_audio_end", "error", "pong"}}
    \cup {<<t, TRUE, 0, FALSE>> :
            t \in {"session_start", "transcript", "response_text",
                   "response_audio", "error"}}
    \cup {<<t, FALSE, 0, FALSE>> :
            t \in {"session_start", "transcript", "response_audio",
                   "error", "unparsable"}}

(* A text message that fails to parse or whose payload lacks the fields    *)
(* its type requires.                                                      *)
isMalformed(msg) ==
    \/ msg[1] = "unparsable"
    \/ (~(msg[2] /\ msg[4])
          /\ msg[1] \in {"session_start", "transcript", "response_text",
                         "response_audio", "error"})

(* Whether handleMessage's try block throws: JSON.parse on an unparsable   *)
(* frame, a field read on the missing message.data, or atob() on the       *)
(* missing audio field.                                                    *)
throws(msg) ==
    \/ msg[1] = "unparsable"
    \/ (~msg[2] /\ msg[1] \in {"session_start", "transcript", "response_text",
                               "response_audio", "error"})
    \/ (~msg[4] /\ msg[1] = "response_audio")

(* handleMessage with the onError call of its error case removed           *)
uiCallbackNoError(msg) ==
    CASE throws(msg)               -> "none"
      [] msg[1] = "transcript"     -> "onTranscript"
      [] msg[1] = "response_text"  -> "onResponseText"
      [] OTHER                     -> "none"

(* handleMessage: the UI callback (other than onStateChange) it invokes    *)
uiCallback(msg) ==
    CASE throws(msg)               -> "none"
      [] msg[1] = "transcript"     -> "onTranscript"
      [] msg[1] = "response_text"  -> "onResponseText"
      [] msg[1] = "error"          -> "onError"
      [] OTHER                     -> "none"

(* ws.onmessage of socket s -> handleMessage                               *)
HandleMessage(s, msg) ==
    /\ s \in 1..Len(sockets)
    /\ sockets[s] \in {"open", "closing"}
    /\ LET type    == msg[1]
           enqueue == ~throws(msg) /\ type \in {"binary", "response_audio"}
           target  == CASE throws(msg) -> "none"
                        [] type = "transcript" /\ msg[3] = 1 -> "processing"
                        [] type = "error" -> "idle"
                        [] OTHER -> "none"
       IN  /\ nSegs' = IF enqueue THEN nSegs + 1 ELSE nSegs
           /\ sessionId' = IF ~throws(msg) /\ type = "session_start"
                           THEN msg[3] ELSE sessionId
           /\ IF enqueue
              THEN PlayerStep(queueAudio(Player, nSegs + 1), "none")
              ELSE /\ UNCHANGED <<queue, isPlaying, currentSource, playing,
                                  halted, started, runStarts>>
                   /\ prevState' = state
                   /\ state' = IF target = "none" THEN state
                               ELSE setState(state, target)
                   /\ ev' =
                        CASE throws(msg) -> "none"
                          [] type = "transcript" /\ msg[3] = 1 -> "finalTranscript"
                          [] type = "error" -> "error"
                          [] OTHER -> "none"
                   /\ Observe(IF target = "none" THEN "none"
                               ELSE onStateChange(state, target),
                              uiCallback(msg), isMalformed(msg))
    /\ out' = "none"
    /\ merged' = <<>>
    /\ frame' = <<>>
    /\ pcm' = IF ~throws(msg) /\ msg[1] \in {"binary", "response_audio"}
               THEN [data |-> <<>>, float32 |-> int16ToFloat32(<<>>)]
               ELSE pcm
    /\ UNCHANGED <<ws, reconnectAttempts, pingInterval, sockets, intervals,
                   reconnectTimers, nConnects, disconnected, closesSinceOpen,
                   scheduledSinceOpen, decoding>>
    /\ UNCHANGED micVars

---------------------------------------------------------------------------
(* The state after the constructors have run.                              *)
Init ==
    /\ state = "idle"
    /\ ws = 0
    /\ microphone = 0
    /\ sessionId = 0
    /\ reconnectAttempts = 0
    /\ pingInterval = 0
    /\ sockets = <<>>
    /\ intervals = {}
    /\ reconnectTimers = 0
    /\ resuming = 0
    /\ mics = <<>>
    /\ queue = <<>>
    /\ isPlaying = FALSE
    /\ currentSource = 0
    /\ playing = {}
    /\ halted = {}
    /\ decoding = {}
    /\ ev = "none"
    /\ prevState = "idle"
    /\ out = "none"
    /\ merged = <<>>
    /\ micHist = <<>>
    /\ nChunks = 0
    /\ nSegs = 0
    /\ started = <<>>
    /\ runStarts = 0
    /\ nConnects = 0
    /\ disconnected = FALSE
    /\ closesSinceOpen = 0
    /\ scheduledSinceOpen = 0
    /\ notified = "none"
    /\ lastNotified = "none"
    /\ ui = "none"
    /\ malformed = FALSE
    /\ frame = <<>>
    /\ pcm = [data |-> <<>>, float32 |-> <<>>]

(* The Playback Queue driven through its public interface.                 *)
NextPlayer ==
    \/ (nSegs < MaxSegs /\ QueueAudio)
    \/ (nSegs < MaxSegs /\ QueueBlob)
    \/ \E s \in 1..MaxSegs : DecodeDone(s)
    \/ \E s \in 1..MaxSegs : SourceEnded(s)
    \/ PlayerStop

SpecPlayer == Init /\ [][NextPlayer]_vars

(* Capture driven by startListening() / stopListening(), with no socket.   *)
NextCapture ==
    \/ (resuming + Len(mics) < MaxListens /\ StartListening)
    \/ ResumeDone
    \/ \E m \in 1..MaxListens :
         \E o \in {"ok", "denied", "contextFail", "graphFail"} :
           GetUserMediaDone(m, o)
    \/ \E m \in 1..MaxListens : \E c \in Chunks :
         (nChunks < MaxChunks /\ OnAudioProcess(m, c))
    \/ \E m \in 1..MaxListens : SilenceTimerFire(m)
    \/ StopListening

SpecCapture == Init /\ [][NextCapture]_vars

(* The connection sub-protocol: connect(), the socket's events, the        *)
(* reconnect delay, the heartbeat and disconnect().                        *)
NextConn ==
    \/ (nConnects < MaxConnects /\ Len(sockets) < MaxSockets /\ Connect)
    \/ \E s \in 1..MaxSockets : SocketOpen(s)
    \/ \E s \in 1..MaxSockets : SocketClose(s)
    \/ (Len(sockets) < MaxSockets /\ ReconnectTimerFire)
    \/ Disconnect
    \/ \E i \in 1..MaxSockets : PingTick(i)

SpecConn == Init /\ [][NextConn]_vars

(* The PCM path: chunks of samples at, inside and beyond full scale are    *)
(* captured and streamed on the open socket, and PCM16 segments are        *)
(* enqueued on the player.                                                 *)
CodecChunks == { <<s>> : s \in {-1500, -1000, -500, 0, 500, 1000, 1500} }
CodecSegments == { <<v>> : v \in {-32768, -16384, 0, 16384, 32767} }

NextCodec ==
    \/ (Len(sockets) = 0 /\ Connect)
    \/ SocketOpen(1)
    \/ (resuming + Len(mics) = 0 /\ StartListening)
    \/ ResumeDone
    \/ GetUserMediaDone(1, "ok")
    \/ \E c \in CodecChunks : (nChunks < MaxChunks /\ OnAudioProcess(1, c))
    \/ \E d \in CodecSegments : (nSegs < MaxSegs /\ QueueAudioData(d))

SpecCodec == Init /\ [][NextCodec]_vars

(* The inbound protocol: every message of Messages handled on the sockets  *)
(* of the connection sub-protocol, with the playback it starts.            *)
NextInbound ==
    \/ (nConnects < MaxConnects /\ Len(sockets) < MaxConnects /\ Connect)
    \/ \E s \in 1..MaxSockets : SocketOpen(s)
    \/ \E s \in 1..MaxSockets : SocketClose(s)
    \/ (Len(sockets) < MaxConnects /\ ReconnectTimerFire)
    \/ Disconnect
    \/ \E s \in 1..MaxSockets : \E msg \in Messages :
         (nSegs < MaxSegs /\ HandleMessage(s, msg))
    \/ \E s \in 1..MaxSegs : SourceEnded(s)

SpecInbound == Init /\ [][NextInbound]_vars

(* The end-to-end scenario: the socket opens, a session_start is received, *)
(* startListening() is called, a silent, a voiced and a silent chunk are   *)
(* captured, the debounce elapses, a response_audio is received and its    *)
(* playback ends; the heartbeat ticks, and its pong, interim transcripts   *)
(* and response text arrive, at any time.  The guards fix the order of the *)
(* scenario's steps.                                                       *)
NextScenario ==
    \/ (nConnects = 0 /\ Connect)
    \/ SocketOpen(1)
    \/ \E i \in SessionIds :
         (sessionId = 0 /\ resuming + Len(mics) = 0
            /\ HandleMessage(1, <<"session_start", TRUE, i, TRUE>>))
    \/ (sessionId # 0 /\ resuming + Len(mics) = 0 /\ StartListening)
    \/ ResumeDone
    \/ GetUserMediaDone(1, "ok")
    \/ \E c \in Chunks :
         (nChunks < 3 /\ (belowThreshold(c) <=> nChunks # 1)
            /\ OnAudioProcess(1, c))
    \/ (nChunks = 3 /\ SilenceTimerFire(1))
    \/ (state = "processing" /\ nSegs = 0
          /\ HandleMessage(1, <<"response_audio", TRUE, 0, TRUE>>))
    \/ SourceEnded(1)
    \/ PingTick(1)
    \/ \E t \in {"pong", "transcript", "response_text"} :
         HandleMessage(1, <<t, TRUE, 0, TRUE>>)

SpecScenario == Init /\ [][NextScenario]_vars

(* The whole session: the conversation over the sockets the user opens     *)
(* (the reconnect delay does not elapse within it).  A stopListening() or  *)
(* disconnect() call that finds nothing to stop (no capture, no socket, no *)
(* heartbeat, state not listening) changes nothing and is left out.        *)
SessionMessages ==
    { <<"session_start", TRUE, 1, TRUE>>, <<"transcript", TRUE, 1, TRUE>>,
      <<"binary", TRUE, 0, TRUE>>, <<"error", TRUE, 0, TRUE>>,
      <<"error", FALSE, 0, FALSE>> }

userCalls == nConnects + resuming + Len(mics)

Next ==
    \/ (userCalls < SessionCalls /\ Connect)
    \/ \E s \in 1..SessionCalls : SocketOpen(s)
    \/ \E s \in 1..SessionCalls : SocketClose(s)
    \/ ((ws # 0 \/ pingInterval # 0 \/ microphone # 0 \/ state = "listening")
          /\ Disconnect)
    \/ \E s \in 1..SessionCalls : \E msg \in SessionMessages :
         (nChunks + nSegs < SessionAudio /\ HandleMessage(s, msg))
    \/ (userCalls < SessionCalls /\ StartListening)
    \/ ResumeDone
    \/ \E m \in 1..SessionCalls :
         \E o \in {"ok", "denied"} :
           GetUserMediaDone(m, o)
    \/ \E m \in 1..SessionCalls : \E c \in SessionChunks :
         (nChunks + nSegs < SessionAudio /\ OnAudioProcess(m, c))
    \/ \E m \in 1..SessionCalls : SilenceTimerFire(m)
    \/ ((microphone # 0 \/ state = "listening") /\ StopListening)
    \/ \E s \in 1..SessionAudio : SourceEnded(s)

Spec == Init /\ [][Next]_vars

(* What the platform is bound to deliver: the ended event of a source that *)
(* was started, the close event of a socket that close() was called on,    *)
(* the settling of resume() and of getUserMedia, and an armed silence      *)
(* timeout.  The user's calls and the server's messages are under no       *)
(* obligation.                                                             *)
Fairness ==
    /\ \A s \in 1..SessionAudio : WF_vars(SourceEnded(s))
    /\ \A s \in 1..SessionCalls :
          WF_vars(/\ s \in 1..Len(sockets)
                  /\ sockets[s] \in {"closing", "aborted"}
                  /\ SocketClose(s))
    /\ WF_vars(ResumeDone)
    /\ \A m \in 1..SessionCalls :
          WF_vars(\E o \in {"ok", "denied"} : GetUserMediaDone(m, o))
    /\ \A m \in 1..SessionCalls : WF_vars(SilenceTimerFire(m))

SpecLive == Init /\ [][Next]_vars /\ Fairness

---------------------------------------------------------------------------
(* Protocol Session claims                                                 *)

Min(a, b) == IF a < b THEN a ELSE b

(* The transition table of the specification, as <<from, event, to>>.      *)
TransitionTable ==
    { <<"idle", "startListening", "listening">>,
      <<"listening", "flush", "processing">>,
      <<"listening", "stopListening", "idle">>,
      <<"processing", "playbackStarted", "speaking">>,
      <<"processing", "error", "idle">>,
      <<"speaking", "playbackEnded", "idle">> }

TableEvents ==
    {"startListening", "flush", "stopListening", "playbackStarted",
     "playbackEnded", "error", "finalTranscript"}

C2_StopFromListeningIsIdle ==
    (ev = "stopListening" /\ prevState = "listening") => state = "idle"

(* C3: after disconnect() (and until the user connects again) no reconnect *)
(* attempt opens a socket and no heartbeat, reconnect-delay or silence     *)
(* timer is pending.                                                       *)
C3_DisconnectCancelsAll ==
    disconnected =>
        /\ ev # "reconnect"
        /\ reconnectTimers = 0
        /\ intervals = {}
        /\ \A m \in 1..Len(mics) : mics[m].silenceTimer # "pending"

(* C4: while no socket opens, the reconnect delays started are the close   *)
(* events up to the budget of 5: the 6th close starts none, and a close    *)
(* with the budget used up never starts one.                               *)
C4_ReconnectBudget ==
    /\ [](scheduledSinceOpen = Min(closesSinceOpen, MAX_RECONNECT_ATTEMPTS))
    /\ [][(reconnectAttempts = MAX_RECONNECT_ATTEMPTS /\ ev' = "close")
            => reconnectTimers' = reconnectTimers]_vars

(* C4 witness: six sockets closed in a row without opening, five delays    *)
(* were started, none is pending and no socket is left.                    *)
C4_Witness ==
    /\ closesSinceOpen = 6
    /\ scheduledSinceOpen = 5
    /\ reconnectTimers = 0
    /\ Len(sockets) = 6
    /\ \A s \in 1..Len(sockets) : sockets[s] = "closed"

(* C13: onStateChange fires only on an actual change: the state it        *)
(* carries is the new state, differs from the state before the step and    *)
(* from the state the previous invocation carried, and a step that leaves  *)
(* the state where it was (an event re-entering it) fires no callback.     *)
C13_CallbackOnlyOnChange ==
    /\ (notified # "none"
          => (notified = state /\ state # prevState /\ notified # lastNotified))
    /\ (state = prevState => notified = "none")

(* C13 witness: an error message arrived in idle, after the state had gone *)
(* back to idle with a callback: setState("idle") fired nothing.           *)
C13_Witness ==
    /\ ev = "error" /\ prevState = "idle" /\ state = "idle"
    /\ notified = "none" /\ lastNotified = "idle"

(* C14: a well-formed inbound error message, in whatever state it         *)
(* arrives, invokes onError once and leaves the state idle; the handler    *)
(* touches neither the sockets, nor the heartbeat, nor the reconnect       *)
(* counter and timers.                                                     *)
C14_ErrorForcesIdle ==
    /\ [](ev = "error" => (ui = "onError" /\ state = "idle"))
    /\ [][ev' = "error"
            => /\ sockets' = sockets /\ ws' = ws
               /\ intervals' = intervals /\ pingInterval' = pingInterval
               /\ reconnectAttempts' = reconnectAttempts
               /\ reconnectTimers' = reconnectTimers]_vars

(* C14 witness: the error arrived while listening, on the open socket with *)
(* its heartbeat running.                                                  *)
C14_Witness ==
    /\ ev = "error" /\ prevState = "listening" /\ state = "idle"
    /\ ui = "onError" /\ notified = "idle"
    /\ wsOpen /\ pingInterval = ws /\ ws \in intervals

(* C15: a text message that fails to parse, or whose payload lacks the     *)
(* fields its type requires, is dropped: the state, the session            *)
(* identifier and the Playback Queue are unchanged, no UI callback fires   *)
(* and the sockets are untouched.                                          *)
C15_MalformedDropped ==
    [][malformed'
         => /\ state' = state /\ sessionId' = sessionId
            /\ queue' = queue /\ playing' = playing /\ isPlaying' = isPlaying
            /\ ui' = "none" /\ notified' = "none"
            /\ sockets' = sockets /\ ws' = ws]_vars

(* C16: in the end-to-end scenario the state stays idle (and no callback   *)
(* fires) until startListening() has started the capture, and the          *)
(* onStateChange calls are listening, processing, speaking, idle in that   *)
(* order, each once: listening first, with nothing captured yet;           *)
(* processing right after listening, with the three chunks flushed and the *)
(* one audio_end sent in that step; speaking right after processing, with  *)
(* the response segment playing; idle right after speaking, with the queue *)
(* drained; and no call after that.                                        *)
C16_ScenarioStates ==
    /\ (Len(mics) = 0 => (state = "idle" /\ notified = "none"
                            /\ lastNotified = "none"))
    /\ (out = "audio_end" => notified = "processing")
    /\ (notified # "none" =>
          /\ notified = state
          /\ \/ /\ notified = "listening" /\ lastNotified = "none"
                /\ nChunks = 0 /\ nSegs = 0
             \/ /\ notified = "processing" /\ lastNotified = "listening"
                /\ nChunks = 3 /\ Len(merged) = 6 /\ out = "audio_end"
                /\ nSegs = 0
             \/ /\ notified = "speaking" /\ lastNotified = "processing"
                /\ playing = {1}
             \/ /\ notified = "idle" /\ lastNotified = "speaking"
                /\ started = <<1>> /\ playing = {} /\ queue = <<>>)

(* C16 witness: the scenario has run to its end: the playback of the       *)
(* response ended, and the last two callbacks were speaking, then idle.    *)
C16_Witness ==
    /\ sessionId # 0 /\ nChunks = 3 /\ started = <<1>> /\ playing = {}
    /\ ev = "playbackEnded"
    /\ state = "idle" /\ notified = "idle" /\ lastNotified = "speaking"

(* C17: the session identifier is invalidated with its socket: after a     *)
(* close event or disconnect() that leaves the session without an open     *)
(* socket, no session identifier is held.                                  *)
C17_SessionInvalidated ==
    (ev \in {"close", "disconnect"} /\ ~wsOpen) => sessionId = 0

(* C18: whenever the state is not idle and the session loses its socket    *)
(* (disconnect() was called, or a close event found the reconnect budget   *)
(* used up) or the device fails, then eventually the state is idle or the  *)
(* onError callback fires.                                                 *)
C18_TerminalCallback ==
    (/\ state # "idle"
     /\ \/ ev = "disconnect"
        \/ (ev = "close" /\ reconnectTimers = 0)
        \/ ev = "captureError")
      ~> (state = "idle" \/ ui = "onError")

(* C19: every flush handed to onSilence (by the silence timeout or by      *)
(* stop()) sends one audio_end on the socket in the same step as it sets   *)
(* the state to processing.                                                *)
C19_FlushSendsAudioEnd ==
    merged # <<>> => (out = "audio_end" /\ state = "processing")

(* C24: the heartbeat started by a socket's open event is active for as    *)
(* long as that socket is open (until its close event, or disconnect()),   *)
(* no heartbeat of a socket that is no longer open is active, and a ping   *)
(* is sent only on an open socket.                                         *)
C24_HeartbeatFollowsSocket ==
    /\ \A s \in 1..Len(sockets) :
          (sockets[s] = "open" /\ ~disconnected) => s \in intervals
    /\ \A i \in intervals : sockets[i] = "open"
    /\ (out = "ping" => wsOpen)

(* C25: whenever the session state is speaking a play-run is in progress: *)
(* a segment is playing or segments are queued in the player.              *)
C25_SpeakingMeansPlaying ==
    state = "speaking" => (isPlaying \/ playing # {} \/ queue # <<>>)

(* C26: at most one socket of the session is connecting or open (with its  *)
(* handlers attached), it is the socket the session references, and a      *)
(* close event reaches the session only from the socket it references.     *)
C26_OneLiveSocket ==
    /\ [](\A s \in 1..Len(sockets) :
            sockets[s] \in {"connecting", "open"} => s = ws)
    /\ [][\A s \in 1..Len(sockets) :
            (sockets[s] # "closed" /\ sockets'[s] = "closed") => s = ws]_vars

---------------------------------------------------------------------------
(* Playback Queue claims                                                   *)

(* C5: "playback started" fires exactly once per play-run, on the first    *)
(* segment dequeued of the run, however many segments are enqueued while   *)
(* the run is in progress: a run in progress has fired it once, and no run *)
(* has fired it twice.                                                     *)
C5_StartedOncePerRun == runStarts = (IF isPlaying THEN 1 ELSE 0)

(* C6: in a play-run that no stop() has interrupted (isPlaying is still    *)
(* set), "playback ended" fires only in the step that leaves the queue     *)
(* empty and no segment playing.                                           *)
C6_EndedOnlyWhenDrained ==
    [][(ev' = "playbackEnded" /\ isPlaying)
          => (queue' = <<>> /\ playing' = {})]_vars

(* C7: stop() leaves the queue empty and the player idle, and the          *)
(* completion callback of a halted segment, whenever it is delivered,      *)
(* starts no segment and fires no "playback ended" while a segment plays.  *)
C7_HaltedCallbackInert ==
    [][/\ (ev' = "playerStop"
             => (queue' = <<>> /\ ~isPlaying' /\ currentSource' = 0))
       /\ ((\E s \in halted : s \notin halted')
             => /\ started' = started
                /\ (ev' = "playbackEnded" => playing' = {}))]_vars

(* C8: at most one segment is playing on the output device.                *)
C8_OneSegmentPlaying == Cardinality(playing) <= 1

(* C9: segments start in the order of their enqueue calls (a segment is    *)
(* named by the number of its enqueue call), whichever decode ends first.  *)
C9_PlayOrderIsEnqueueOrder ==
    \A i, j \in 1..Len(started) : i < j => started[i] < started[j]

---------------------------------------------------------------------------
(* Capture claims                                                          *)

(* C10: when the debounce timer of a capture elapses (silence went on      *)
(* uninterrupted since it was armed), one flush happens: onSilence gets    *)
(* the concatenation, in capture order, of every chunk captured since the  *)
(* previous flush, the UtteranceBuffer is empty afterwards, and it is the  *)
(* only timer flush of that stretch of silence.                            *)
C10_TimerFlushesAllOnce ==
    [][\A m \in 1..Len(mics) :
          (mics[m].silenceTimer = "pending" /\ mics'[m].silenceTimer = "fired")
            => /\ merged' = micHist[m].captured
               /\ merged' # <<>>
               /\ mics'[m].audioBuffer = <<>>
               /\ micHist'[m].timerFlushes = 1
               /\ ev' = "flush"]_vars

(* C10 witness: a timer flush has handed over a voiced chunk followed by   *)
(* two silent chunks, and the buffer is empty.                             *)
C10_Witness ==
    \E m \in 1..Len(mics) :
        /\ mics[m].silenceTimer = "fired"
        /\ mics[m].audioBuffer = <<>>
        /\ micHist[m].timerFlushes = 1
        /\ merged = <<8, 12, 0, 12, 0, 0>>

(* The chunk the last step appended to the UtteranceBuffer of mic m, <<>>  *)
(* if it appended none.                                                    *)
Arrived(m) ==
    IF Len(mics'[m].audioBuffer) = Len(mics[m].audioBuffer) + 1
    THEN mics'[m].audioBuffer[Len(mics'[m].audioBuffer)]
    ELSE <<>>

(* C11: an above-threshold chunk arriving while the silence timer is       *)
(* pending cancels the timer, and a timer flush only ever comes from a     *)
(* timer armed after the last above-threshold chunk: no flush comes from a *)
(* countdown that a voiced chunk interrupted.                              *)
C11_VoicedChunkCancelsTimer ==
    [][\A m \in 1..Len(mics) :
          /\ (mics[m].silenceTimer = "pending" /\ Arrived(m) # <<>>
                 /\ ~belowThreshold(Arrived(m)))
               => (mics'[m].silenceTimer = "null" /\ merged' = <<>>)
          /\ (mics[m].silenceTimer = "pending"
                 /\ mics'[m].silenceTimer = "fired")
               => ~micHist[m].voicedSinceArmed]_vars

(* C11 witness: a silent chunk armed the timer, a voiced chunk cancelled   *)
(* it, and capture goes on with both chunks buffered and no flush.         *)
C11_Witness ==
    \E m \in 1..Len(mics) :
        /\ mics[m].isRecording
        /\ mics[m].silenceTimer = "null"
        /\ mics[m].audioBuffer = << <<0, 12>>, <<20, 20>> >>
        /\ micHist[m].voicedSinceArmed
        /\ micHist[m].timerFlushes = 0

(* C12: stop() of the session's capture cancels the silence timer, hands   *)
(* whatever is buffered to onSilence once (nothing when the buffer is      *)
(* empty), and leaves the capture inactive with an empty UtteranceBuffer   *)
(* and no stream or context held; on a capture that is not active and has  *)
(* an empty buffer it invokes no callback and changes nothing.             *)
C12_StopFlushesAndReleases ==
    [][(ev' = "stopListening" /\ microphone # 0) =>
          /\ mics'[microphone].silenceTimer = "null"
          /\ merged' = micHist[microphone].captured
          /\ ~mics'[microphone].isRecording
          /\ mics'[microphone].audioBuffer = <<>>
          /\ ~mics'[microphone].mediaStream
          /\ ~mics'[microphone].audioContext
          /\ (~mics[microphone].isRecording
                 /\ mics[microphone].audioBuffer = <<>>)
               => (merged' = <<>> /\ mics'[microphone] = mics[microphone])]_vars

(* C20: when start() has rejected, the capture holds neither a device      *)
(* stream nor an audio context.                                            *)
C20_FailedStartReleases ==
    ev = "captureError" =>
        \A m \in 1..Len(mics) :
            (~mics[m].acquiring /\ ~mics[m].isRecording)
              => (~mics[m].mediaStream /\ ~mics[m].audioContext)

(* C21: at most one capture is recording at any time, and once the session *)
(* references no capture (the last stopListening() has returned) and every *)
(* startListening() has settled, no capture is recording.                  *)
C21_OneCaptureRecording ==
    LET recording == {m \in 1..Len(mics) : mics[m].isRecording}
    IN  /\ Cardinality(recording) <= 1
        /\ (microphone = 0 /\ resuming = 0
               /\ \A m \in 1..Len(mics) : ~mics[m].acquiring)
             => recording = {}

(* C23: a below-threshold chunk arriving on a recording capture whose      *)
(* debounce timer is not pending (never armed, cancelled, or already       *)
(* elapsed) starts a new debounce timer.                                   *)
C23_SilentChunkArmsTimer ==
    [][\A m \in 1..Len(mics) :
          (/\ mics[m].isRecording
           /\ mics[m].silenceTimer # "pending"
           /\ Arrived(m) # <<>>
           /\ belowThreshold(Arrived(m)))
            => mics'[m].silenceTimer = "pending"]_vars

---------------------------------------------------------------------------
(* PCM conversion claims                                                   *)

(* C22: in every binary frame sent, a sample of +1.0 or more is encoded as *)
(* 32767 and a sample of -1.0 or less as -32768; in every segment decoded  *)
(* by the player, the PCM16 value 16384 becomes 0.5.                       *)
C22_PcmConversions ==
    /\ frame # <<>> =>
          LET chunk == mics[microphone].audioBuffer[
                           Len(mics[microphone].audioBuffer)]
          IN  /\ Len(frame) = Len(chunk)
              /\ \A i \in 1..Len(chunk) :
                    /\ (chunk[i] >= FullScale => frame[i] = 32767)
                    /\ (chunk[i] <= -FullScale => frame[i] = -32768)
    /\ Len(pcm.float32) = Len(pcm.data)
    /\ \A i \in 1..Len(pcm.data) :
          pcm.data[i] = 16384 => 2 * pcm.float32[i] = FullScale

(* C22 witness: the sample -1.5 has just been sent, clamped, as -32768, *)
(* and the last segment enqueued was 16384, decoded as 0.5.                *)
C22_Witness ==
    /\ frame = <<-32768>>
    /\ microphone # 0
    /\ mics[microphone].audioBuffer # <<>>
    /\ mics[microphone].audioBuffer[Len(mics[microphone].audioBuffer)]
          = <<-1500>>
    /\ pcm = [data |-> <<16384>>, float32 |-> <<500>>]

=============================================================================
